---- MODULE Spec2Model ----
(***************************************************************************)
(* AppleAssetsGenerator (lib/scripts/utils/apple_assets.py): the issuance  *)
(* pipeline generate_assets and the steps it calls, as a state machine.    *)
(* One action per step function; the orchestrator's failure branches, its  *)
(* success tail and its except handler are actions of their own.           *)
(*                                                                         *)
(* Environment: HTTP responses, the openssl subprocess, key generation and *)
(* zip writing are chosen nondeterministically per call. The output        *)
(* location is usable or not for the whole run (outputUsable, fixed at its *)
(* first use): when it is not, os.makedirs(output_dir) raises wherever it  *)
(* is called. shutil.move and shutil.rmtree may raise on any call.         *)
(* self.log itself never raises.                                           *)
(*                                                                         *)
(* bundleListing, certListing, pushAtCall, capFetch and responses are what *)
(* the step that ran last saw (the listing it received, the capability     *)
(* state, the fetch status, the answers to its requests in order); they go *)
(* out of scope when the next step begins.                                 *)
(*                                                                         *)
(* A request sent with timeout=30 that is never answered raises            *)
(* requests.exceptions.Timeout; a request sent without a timeout that is   *)
(* never answered blocks the step for good (pc = "hung").                  *)
(***************************************************************************)
EXTENDS Integers, Sequences, FiniteSets, TLC

(* ---------------- bounds of the model ---------------- *)
MaxCerts == 3
MaxBundles == 2

(* ---------------- program constants ---------------- *)
KeyIdLen == 10
IssuerLenShort == 32
IssuerLenLong == 36
NewCertId == 9
NewBundleRef == 9
NewProfileId == 9

KeyFile == "privatekey.key"
CsrFile == "request.csr"
CertFile == "certificate.cer"
P12File == "certificate.p12"
ProfileFile == "profile.mobileprovision"
ZipFile == "apple_assets.zip"
LogFile == "generation.log"

RequiredType == "IOS_DISTRIBUTION"
OtherType == "IOS_DEVELOPMENT"
BundleId == "com.example.app"
OtherBundleId == "com.example.app2"

VARIABLES
    key_identifier_len, issuer_id_len, p8_file, outputUsable,
    jwt_token, private_key, certificate_id, profile_id, log_messages,
    bundle_id_ref,
    tempExists, tempFiles, zipContents, outExists, outFiles, logFile,
    requests, bundleListing, remotePush, certListing,
    pushAtCall, capFetch, responses, certFileKey,
    p12Probe, p12Export,
    pc, result, stepResult, calls, moveDone

vars == <<key_identifier_len, issuer_id_len, p8_file, outputUsable,
          jwt_token, private_key, certificate_id, profile_id, log_messages,
          bundle_id_ref,
          tempExists, tempFiles, zipContents, outExists, outFiles, logFile,
          requests, bundleListing, remotePush, certListing,
          pushAtCall, capFetch, responses, certFileKey,
          p12Probe, p12Export,
          pc, result, stepResult, calls, moveDone>>

objVars == <<jwt_token, private_key, certificate_id, profile_id>>
inputVars == <<key_identifier_len, issuer_id_len, p8_file>>
outVars == <<outExists, outFiles, logFile>>
tempVars == <<tempExists, tempFiles, zipContents>>
localVars == <<bundleListing, certListing, pushAtCall, capFetch, responses>>
p12Vars == <<p12Probe, p12Export>>

Steps == {"generate_jwt_token", "verify_bundle_id_exists", "create_bundle_id",
          "ensure_push_capability", "generate_private_key_and_csr",
          "create_certificate", "use_existing_certificate", "generate_p12_file",
          "create_provisioning_profile", "package_files",
          "move_outputs_to_final_dir", "write_log_file"}

(* ---------------- helpers ---------------- *)

\* self.log(message): the line is appended to log_messages.
\* A line is abstracted to the function that wrote it and a short text.
log(msgs, phase, text) == Append(msgs, <<phase, text>>)

\* Request sent without the Authorization header.
Request_without_token(op, token, timeout, ref, cert) ==
    [op |-> op, token |-> "none", timeout |-> timeout, ref |-> ref, cert |-> cert]

\* One HTTP request as sent: the endpoint, the bearer token it carries,
\* whether a timeout was given, and the references in its payload.
Request(op, token, timeout, ref, cert) ==
    [op |-> op, token |-> token, timeout |-> timeout, ref |-> ref, cert |-> cert]

Called(step) == [calls EXCEPT ![step] = @ + 1]

\* The locals the step that has just returned leaves to look at.
ReturnLocals(bl, cl, pac, cf) ==
    /\ bundleListing' = bl
    /\ certListing' = cl
    /\ pushAtCall' = pac
    /\ capFetch' = cf

NoLocals == ReturnLocals(<<>>, <<>>, "none", "none") /\ responses' = <<>>

\* The step's locals when only the answers to its requests are kept.
OnlyResponses(rs) == ReturnLocals(<<>>, <<>>, "none", "none") /\ responses' = rs

\* requests.get / requests.post without a timeout, never answered: the call
\* does not return and the step stays where it is.
Hang == pc' = "hung" /\ UNCHANGED stepResult

\* write_log_file writing SUCCESS whatever status it is given.
write_log_file_always_success(usable, oe, of, lf, lines, status) ==
    IF usable
    THEN [outExists |-> TRUE, outFiles |-> of \cup {LogFile},
          logFile |-> [status |-> "SUCCESS", lines |-> lines]]
    ELSE [outExists |-> oe, outFiles |-> of, logFile |-> lf]

\* write_log_file(status): makedirs, then the log file is (over)written in
\* the output directory; every exception is swallowed.
write_log_file(usable, oe, of, lf, lines, status) ==
    IF usable
    THEN [outExists |-> TRUE, outFiles |-> of \cup {LogFile},
          logFile |-> [status |-> status, lines |-> lines]]
    ELSE [outExists |-> oe, outFiles |-> of, logFile |-> lf]

\* The files move_outputs_to_final_dir relocates, in its order.
MoveFiles == <<KeyFile, CertFile, P12File, ProfileFile, ZipFile, LogFile>>

MoveFaults == [kind : {"none", "rmtree"}, at : {0}]
              \cup [kind : {"move"}, at : 1..Len(MoveFiles)]

\* move_outputs_to_final_dir without the final rmtree of the scratch area.
move_outputs_keep_scratch(usable, te, tf, oe, of, fault) ==
    LET present == {i \in 1..Len(MoveFiles) : te /\ MoveFiles[i] \in tf}
        upto == IF fault.kind = "move" THEN {i \in present : i < fault.at} ELSE present
        moved == {MoveFiles[i] : i \in upto}
    IN  IF ~usable
        THEN [raised |-> TRUE, tempExists |-> te, tempFiles |-> tf,
              outExists |-> oe, outFiles |-> of]
        ELSE [raised |-> fault.kind = "move", tempExists |-> te, tempFiles |-> tf \ moved,
              outExists |-> TRUE, outFiles |-> of \cup moved]

\* move_outputs_to_final_dir under one choice of fault: the file system
\* after the call and whether the call raised.
move_outputs_to_final_dir(usable, te, tf, oe, of, fault) ==
    LET present == {i \in 1..Len(MoveFiles) : te /\ MoveFiles[i] \in tf}
        upto == IF fault.kind = "move" THEN {i \in present : i < fault.at} ELSE present
        moved == {MoveFiles[i] : i \in upto}
    IN  IF ~usable
        THEN [raised |-> TRUE, tempExists |-> te, tempFiles |-> tf,
              outExists |-> oe, outFiles |-> of]
        ELSE IF fault.kind = "move" \/ fault.kind = "rmtree" \/ ~te
        THEN [raised |-> TRUE, tempExists |-> te, tempFiles |-> tf \ moved,
              outExists |-> TRUE, outFiles |-> of \cup moved]
        ELSE [raised |-> FALSE, tempExists |-> FALSE, tempFiles |-> {},
              outExists |-> TRUE, outFiles |-> of \cup moved]

\* A fault can only happen where the call gets to: a move fault at a file
\* that exists in the scratch area.
FaultPossible(te, tf, fault) ==
    fault.kind = "move" => (te /\ MoveFiles[fault.at] \in tf)

(* ---------------- initial state: __init__ ---------------- *)
Init ==
    /\ key_identifier_len \in {9, KeyIdLen}
    /\ issuer_id_len \in {KeyIdLen, IssuerLenShort, IssuerLenLong}
    /\ p8_file \in {"missing", "bad_header", "bad_footer", "unparsable", "ok"}
    /\ outputUsable = "unknown"
    /\ jwt_token = "none"
    /\ private_key = "none"
    /\ certificate_id = 0
    /\ profile_id = 0
    /\ log_messages = <<>>
    /\ bundle_id_ref = 0
    /\ tempExists = TRUE
    /\ tempFiles = {}
    /\ zipContents = {}
    /\ outExists = FALSE
    /\ outFiles = {}
    /\ logFile = [status |-> "none", lines |-> <<>>]
    /\ requests = <<>>
    /\ bundleListing = <<>>
    /\ remotePush = FALSE
    /\ certListing = <<>>
    /\ pushAtCall = "none"
    /\ capFetch = "none"
    /\ responses = <<>>
    /\ certFileKey = "none"
    /\ p12Probe = "none"
    /\ p12Export = "none"
    /\ pc = "start"
    /\ result = "none"
    /\ stepResult = [s \in Steps |-> "none"]
    /\ calls = [s \in Steps |-> 0]
    /\ moveDone = 0

\* Advance with the failure branch going on to the archive step.
Advance_archiving(step, ok, next) ==
    /\ stepResult' = [stepResult EXCEPT ![step] = IF ok THEN "true" ELSE "false"]
    /\ pc' = IF ok THEN next ELSE IF step = "package_files" THEN "failure" ELSE "package"

\* Advance calling the step again after it returned failure.
Advance_retrying(step, ok, next) ==
    /\ stepResult' = [stepResult EXCEPT ![step] = IF ok THEN "true" ELSE "false"]
    /\ pc' = IF ok THEN next ELSE pc

\* The orchestrator's position after a step returned ok (True) or not.
Advance(step, ok, next) ==
    /\ stepResult' = [stepResult EXCEPT ![step] = IF ok THEN "true" ELSE "false"]
    /\ pc' = IF ok THEN next ELSE "failure"

(* ---------------- generate_assets: entry ---------------- *)
generate_assets_start ==
    /\ pc = "start"
    /\ log_messages' = log(log_messages, "generate_assets", "starting")
    /\ pc' = "auth"
    /\ NoLocals
    /\ UNCHANGED <<inputVars, outputUsable, objVars, bundle_id_ref, tempVars, outVars,
                   requests, remotePush, certFileKey, p12Vars, result, stepResult,
                   calls, moveDone>>

(* ---------------- generate_jwt_token ---------------- *)
\* ValidateCredential without the issuer-identifier length check.
ValidateCredential_no_issuer_check ==
    IF p8_file = "missing" THEN "p8_missing"
    ELSE IF p8_file = "bad_header" THEN "p8_header"
    ELSE IF p8_file = "bad_footer" THEN "p8_footer"
    ELSE IF key_identifier_len # KeyIdLen THEN "key_id_length"
    ELSE "ok"

\* The validations of generate_jwt_token, in the code's order: the first
\* one that fails, or "ok".
ValidateCredential ==
    IF p8_file = "missing" THEN "p8_missing"
    ELSE IF p8_file = "bad_header" THEN "p8_header"
    ELSE IF p8_file = "bad_footer" THEN "p8_footer"
    ELSE IF key_identifier_len # KeyIdLen THEN "key_id_length"
    ELSE IF issuer_id_len \notin {IssuerLenShort, IssuerLenLong} THEN "issuer_id_length"
    ELSE "ok"

\* ProbeAccepts taking only 200 for an accepted token.
ProbeAccepts_only_200(status) == status = "200"

\* What the probe's status means for the step.
ProbeAccepts(status) == status # "401"

generate_jwt_token ==
    /\ pc = "auth"
    /\ calls' = Called("generate_jwt_token")
    /\ LET l1 == log(log_messages, "generate_jwt_token", "reading p8")
       IN  IF ValidateCredential # "ok"
           THEN /\ log_messages' = log(l1, "generate_jwt_token", ValidateCredential)
                /\ Advance("generate_jwt_token", FALSE, "resolve")
                /\ OnlyResponses(<<>>)
                /\ UNCHANGED <<jwt_token, requests>>
           ELSE IF p8_file = "unparsable"
           THEN \* jwt.encode raises: the token is not assigned
                /\ log_messages' = log(l1, "generate_jwt_token", "invalid key")
                /\ Advance("generate_jwt_token", FALSE, "resolve")
                /\ OnlyResponses(<<>>)
                /\ UNCHANGED <<jwt_token, requests>>
           ELSE /\ jwt_token' = "jwt"
                /\ requests' = Append(requests,
                                      Request("GET /certificates", "jwt", TRUE, 0, 0))
                /\ \E resp \in {"200", "401", "500", "exc"} :
                     /\ log_messages' = log(log(l1, "generate_jwt_token", "token generated"),
                                            "generate_jwt_token", resp)
                     /\ Advance("generate_jwt_token",
                                resp # "exc" /\ ProbeAccepts(resp), "resolve")
                     /\ OnlyResponses(<<resp>>)
    /\ UNCHANGED <<inputVars, outputUsable, private_key, certificate_id, profile_id,
                   bundle_id_ref, tempVars, outVars, remotePush, certFileKey, p12Vars,
                   result, moveDone>>

(* ---------------- verify_bundle_id_exists / create_bundle_id ---------------- *)
Identifiers == {BundleId, OtherBundleId}

\* The listings GET /bundleIds can return: identity i has reference id i.
BundleListings ==
    UNION {{[i \in 1..n |-> [id |-> i, identifier |-> f[i]]] : f \in [1..n -> Identifiers]}
           : n \in 0..MaxBundles}

\* FindBundle taking the first listed identity whatever its identifier.
FindBundle_first_listed(l) == IF Len(l) = 0 THEN 0 ELSE l[1].id

\* The loop of verify_bundle_id_exists: the reference of the first listed
\* identity whose identifier is exactly bundle_id, 0 (None) without one.
FindBundle(l) ==
    LET hits == {i \in 1..Len(l) : l[i].identifier = BundleId}
    IN  IF hits = {} THEN 0
        ELSE l[CHOOSE i \in hits : \A j \in hits : i <= j].id

verify_bundle_id_exists ==
    /\ pc = "resolve"
    /\ LET l1 == log(log_messages, "verify_bundle_id_exists", "checking")
           get == Request("GET /bundleIds", jwt_token, TRUE, 0, 0)
           post == Request("POST /bundleIds", jwt_token, FALSE, 0, 0)
       IN  \E resp \in {"200", "401", "403", "500", "timeout", "connerr"} :
             IF resp = "200"
             THEN \E l \in BundleListings :
                    /\ bundleListing' = l
                    /\ IF FindBundle(l) # 0
                       THEN /\ bundle_id_ref' = FindBundle(l)
                            /\ requests' = Append(requests, get)
                            /\ responses' = <<resp>>
                            /\ log_messages' = log(l1, "verify_bundle_id_exists", "found")
                            /\ calls' = Called("verify_bundle_id_exists")
                            /\ remotePush' \in BOOLEAN
                            /\ Advance("verify_bundle_id_exists", TRUE, "cap")
                       ELSE \* create_bundle_id
                            \E cresp \in {"201", "409", "exc", "never"} :
                              /\ requests' = requests \o <<get, post>>
                              /\ responses' = <<resp, cresp>>
                              /\ calls' = [calls EXCEPT !["verify_bundle_id_exists"] = @ + 1,
                                                        !["create_bundle_id"] = @ + 1]
                              /\ bundle_id_ref' = IF cresp = "201" THEN NewBundleRef ELSE 0
                              /\ IF cresp = "201" THEN remotePush' \in BOOLEAN
                                                  ELSE remotePush' = remotePush
                              /\ IF cresp = "never"
                                 THEN /\ log_messages' =
                                           log(log(l1, "verify_bundle_id_exists", "not found"),
                                               "create_bundle_id", "creating")
                                      /\ Hang
                                 ELSE /\ log_messages' =
                                           log(log(log(l1, "verify_bundle_id_exists", "not found"),
                                                   "create_bundle_id", "creating"),
                                               "create_bundle_id", cresp)
                                      /\ stepResult' = [stepResult EXCEPT
                                            !["verify_bundle_id_exists"] =
                                                IF cresp = "201" THEN "true" ELSE "false",
                                            !["create_bundle_id"] =
                                                IF cresp = "201" THEN "true" ELSE "false"]
                                      /\ pc' = IF cresp = "201" THEN "cap" ELSE "failure"
             ELSE /\ requests' = Append(requests, get)
                  /\ responses' = <<resp>>
                  /\ log_messages' = log(l1, "verify_bundle_id_exists", resp)
                  /\ calls' = Called("verify_bundle_id_exists")
                  /\ bundle_id_ref' = 0
                  /\ bundleListing' = <<>>
                  /\ Advance("verify_bundle_id_exists", FALSE, "cap")
                  /\ UNCHANGED remotePush
    /\ certListing' = <<>> /\ pushAtCall' = "none" /\ capFetch' = "none"
    /\ UNCHANGED <<inputVars, outputUsable, objVars, tempVars, outVars,
                   certFileKey, p12Vars, result, moveDone>>

(* ---------------- ensure_push_capability ---------------- *)
\* SendsCapabilityRequest without the early return.
SendsCapabilityRequest_always(fetch, enabled) == TRUE

\* SendsCapabilityRequest going on only after a 200 that shows push disabled.
SendsCapabilityRequest_only_after_200(fetch, enabled) == fetch = "200" /\ ~enabled

\* Whether ensure_push_capability goes on to the creation request after
\* the fetch: it returns early only on a 200 whose list shows push enabled.
SendsCapabilityRequest(fetch, enabled) == ~(fetch = "200" /\ enabled)

ensure_push_capability ==
    /\ pc = "cap"
    /\ calls' = Called("ensure_push_capability")
    /\ pushAtCall' = IF remotePush THEN "enabled" ELSE "disabled"
    /\ LET l1 == log(log_messages, "ensure_push_capability", "ensuring")
           get == Request("GET /bundleIds/capabilities", jwt_token, FALSE, bundle_id_ref, 0)
           post == Request("POST /bundleIdCapabilities", jwt_token, FALSE, bundle_id_ref, 0)
       IN  \E fetch \in {"200", "500", "exc", "never"} :
             /\ capFetch' = fetch
             /\ IF fetch = "never"
                THEN /\ requests' = Append(requests, get)
                     /\ responses' = <<fetch>>
                     /\ log_messages' = l1
                     /\ Hang
                     /\ UNCHANGED remotePush
                ELSE IF fetch = "exc"
                THEN /\ requests' = Append(requests, get)
                     /\ responses' = <<fetch>>
                     /\ log_messages' = log(l1, "ensure_push_capability", "exc")
                     /\ Advance("ensure_push_capability", FALSE, "keys")
                     /\ UNCHANGED remotePush
                ELSE IF ~SendsCapabilityRequest(fetch, remotePush)
                THEN /\ requests' = Append(requests, get)
                     /\ responses' = <<fetch>>
                     /\ log_messages' = log(l1, "ensure_push_capability", "already enabled")
                     /\ Advance("ensure_push_capability", TRUE, "keys")
                     /\ UNCHANGED remotePush
                ELSE \E resp \in {"200", "201", "409", "exc", "never"} :
                       /\ requests' = requests \o <<get, post>>
                       /\ responses' = <<fetch, resp>>
                       /\ remotePush' = (remotePush \/ resp \in {"200", "201"})
                       /\ IF resp = "never"
                          THEN /\ log_messages' = l1
                               /\ Hang
                          ELSE /\ log_messages' =
                                    log(l1, "ensure_push_capability",
                                        IF resp \in {"200", "201"} THEN "enabled" ELSE resp)
                               /\ Advance("ensure_push_capability",
                                          resp \in {"200", "201"}, "keys")
    /\ bundleListing' = <<>> /\ certListing' = <<>>
    /\ UNCHANGED <<inputVars, outputUsable, objVars, bundle_id_ref, tempVars, outVars,
                   certFileKey, p12Vars, result, moveDone>>

(* ---------------- generate_private_key_and_csr ---------------- *)
generate_private_key_and_csr ==
    /\ pc = "keys"
    /\ calls' = Called("generate_private_key_and_csr")
    /\ LET l1 == log(log_messages, "generate_private_key_and_csr", "generating key")
       IN  \E o \in {"ok", "keygen_exc", "write_exc", "csr_exc"} :
             /\ private_key' = IF o = "keygen_exc" THEN private_key ELSE "K1"
             /\ tempFiles' = tempFiles \cup
                   (CASE o = "ok" -> {KeyFile, CsrFile}
                      [] o = "csr_exc" -> {KeyFile}
                      [] OTHER -> {})
             /\ log_messages' = log(l1, "generate_private_key_and_csr", o)
             /\ Advance("generate_private_key_and_csr", o = "ok", "cert")
    /\ NoLocals
    /\ UNCHANGED <<inputVars, outputUsable, jwt_token, certificate_id, profile_id,
                   bundle_id_ref, tempExists, zipContents, outVars, requests, remotePush,
                   certFileKey, p12Vars, result, moveDone>>

(* ---------------- create_certificate / _use_existing_certificate ---------------- *)
\* Expiration dates are strings; a date is its sequence of digits.
ExpirationDates == {<<1, 9>>, <<2, 0>>, <<2, 1>>}
CertTypes == {RequiredType, OtherType}

\* Python's < on strings: lexicographic.
RECURSIVE StrLess(_, _)
StrLess(a, b) ==
    IF a = <<>> THEN b # <<>>
    ELSE IF b = <<>> THEN FALSE
    ELSE IF a[1] # b[1] THEN a[1] < b[1]
    ELSE StrLess(Tail(a), Tail(b))

\* The listings GET /certificates can return: certificate i has id i.
CertListings ==
    UNION {{[i \in 1..n |-> [id |-> i, type |-> f[i].type, exp |-> f[i].exp]]
            : f \in [1..n -> [type : CertTypes, exp : ExpirationDates]]}
           : n \in 0..MaxCerts}

\* ios_distribution_certs keeping every listed certificate.
ios_distribution_certs_unfiltered(l) == 1..Len(l)

\* The list comprehension of _use_existing_certificate: the positions of
\* the listed certificates of the required type.
ios_distribution_certs(l) == {i \in 1..Len(l) : l[i].type = RequiredType}

\* latest_cert taking the maximum over the whole listing, whatever the type.
latest_cert_any_type(l) ==
    LET c == 1..Len(l)
        tops == {i \in c : \A j \in c : ~StrLess(l[i].exp, l[j].exp)}
    IN  l[CHOOSE i \in tops : \A j \in tops : i <= j]

\* max(ios_distribution_certs, key=expirationDate): the first candidate
\* that no other candidate exceeds.
latest_cert(l) ==
    LET c == ios_distribution_certs(l)
        tops == {i \in c : \A j \in c : ~StrLess(l[i].exp, l[j].exp)}
    IN  l[CHOOSE i \in tops : \A j \in tops : i <= j]

\* Writing certificate.cer after certificate_id was assigned: open() may
\* raise (no file), a write may raise (a file cut short remains).
CertWriteOutcomes == {"ok", "open_exc", "write_exc"}
CertWritten(tf, w) == IF w = "open_exc" THEN tf ELSE tf \cup {CertFile}
CertFileHolds(old, content, w) ==
    CASE w = "ok" -> content
      [] w = "write_exc" -> "partial"
      [] OTHER -> old

create_certificate ==
    /\ pc = "cert"
    /\ LET l1 == log(log_messages, "create_certificate", "creating")
           post == Request("POST /certificates", jwt_token, FALSE, 0, 0)
           get == Request("GET /certificates", jwt_token, TRUE, 0, 0)
       IN  \E resp \in {"201", "409", "500", "exc", "never"} :
             IF resp = "never"
             THEN /\ requests' = Append(requests, post)
                  /\ responses' = <<resp>>
                  /\ log_messages' = l1
                  /\ calls' = Called("create_certificate")
                  /\ Hang
                  /\ certListing' = <<>>
                  /\ UNCHANGED <<certificate_id, tempFiles, certFileKey>>
             ELSE IF resp = "201"
             THEN \E w \in CertWriteOutcomes :
                  /\ certificate_id' = NewCertId
                  /\ tempFiles' = CertWritten(tempFiles, w)
                  /\ certFileKey' = CertFileHolds(certFileKey, private_key, w)
                  /\ requests' = Append(requests, post)
                  /\ responses' = <<resp>>
                  /\ log_messages' = log(l1, "create_certificate",
                                         IF w = "ok" THEN "created" ELSE w)
                  /\ calls' = Called("create_certificate")
                  /\ Advance("create_certificate", w = "ok", "p12")
                  /\ certListing' = <<>>
             ELSE IF resp = "409"
             THEN \* _use_existing_certificate
                  /\ requests' = requests \o <<post, get>>
                  /\ calls' = [calls EXCEPT !["create_certificate"] = @ + 1,
                                            !["use_existing_certificate"] = @ + 1]
                  /\ \E lresp \in {"200", "500", "exc"} :
                       IF lresp = "200"
                       THEN \E l \in CertListings, w \in CertWriteOutcomes :
                              /\ certListing' = l
                              /\ responses' = <<resp, lresp>>
                              /\ IF ios_distribution_certs(l) # {}
                                 THEN /\ certificate_id' = latest_cert(l).id
                                      /\ tempFiles' = CertWritten(tempFiles, w)
                                      /\ certFileKey' = CertFileHolds(certFileKey, "foreign", w)
                                      /\ log_messages' =
                                           log(log(l1, "create_certificate", "409"),
                                               "use_existing_certificate",
                                               IF w = "ok" THEN "using existing" ELSE w)
                                 ELSE /\ w = "ok"
                                      /\ log_messages' =
                                           log(log(l1, "create_certificate", "409"),
                                               "use_existing_certificate", "none found")
                                      /\ UNCHANGED <<certificate_id, tempFiles, certFileKey>>
                              /\ LET ok == ios_distribution_certs(l) # {} /\ w = "ok"
                                 IN  /\ stepResult' = [stepResult EXCEPT
                                           !["create_certificate"] =
                                               IF ok THEN "true" ELSE "false",
                                           !["use_existing_certificate"] =
                                               IF ok THEN "true" ELSE "false"]
                                     /\ pc' = IF ok THEN "p12" ELSE "failure"
                       ELSE /\ log_messages' =
                                 log(log(l1, "create_certificate", "409"),
                                     "use_existing_certificate", lresp)
                            /\ stepResult' = [stepResult EXCEPT
                                  !["create_certificate"] = "false",
                                  !["use_existing_certificate"] = "false"]
                            /\ pc' = "failure"
                            /\ certListing' = <<>>
                            /\ responses' = <<resp, lresp>>
                            /\ UNCHANGED <<certificate_id, tempFiles, certFileKey>>
             ELSE /\ requests' = Append(requests, post)
                  /\ responses' = <<resp>>
                  /\ log_messages' = log(l1, "create_certificate", resp)
                  /\ calls' = Called("create_certificate")
                  /\ Advance("create_certificate", FALSE, "p12")
                  /\ certListing' = <<>>
                  /\ UNCHANGED <<certificate_id, tempFiles, certFileKey>>
    /\ bundleListing' = <<>> /\ pushAtCall' = "none" /\ capFetch' = "none"
    /\ UNCHANGED <<inputVars, outputUsable, jwt_token, private_key, profile_id,
                   bundle_id_ref, tempExists, zipContents, outVars, remotePush,
                   p12Vars, result, moveDone>>

(* ---------------- generate_p12_file ---------------- *)
ProbeOutcomes == {"ok", "notfound", "timeout", "nonzero", "oserror"}
ExportOutcomes == {"ok", "nonzero", "notfound", "oserror"}

\* ProbeTolerated catching only the executable that is not found.
ProbeTolerated_not_found_only(probe) == probe = "notfound"

\* The inner try of generate_p12_file: a probe that is not found, times out
\* or exits non-zero is caught and the step returns True without exporting.
ProbeTolerated(probe) == probe \in {"notfound", "timeout", "nonzero"}

\* What generate_p12_file returns for a probe outcome and, when the probe
\* succeeded, an export outcome.
P12Returns(probe, export) ==
    IF ProbeTolerated(probe) THEN TRUE
    ELSE IF probe # "ok" THEN FALSE
    ELSE export \in {"ok", "notfound"}

generate_p12_file ==
    /\ pc = "p12"
    /\ calls' = Called("generate_p12_file")
    /\ LET l1 == log(log_messages, "generate_p12_file", "generating")
       IN  \E probe \in ProbeOutcomes :
             /\ p12Probe' = probe
             /\ IF probe = "ok"
                THEN \E export \in ExportOutcomes :
                       /\ p12Export' = export
                       /\ tempFiles' = IF export = "ok" THEN tempFiles \cup {P12File}
                                                        ELSE tempFiles
                       /\ log_messages' = log(l1, "generate_p12_file", export)
                       /\ Advance("generate_p12_file", P12Returns(probe, export), "profile")
                ELSE /\ UNCHANGED <<p12Export, tempFiles>>
                     /\ log_messages' = log(l1, "generate_p12_file", probe)
                     /\ Advance("generate_p12_file", P12Returns(probe, "none"), "profile")
    /\ NoLocals
    /\ UNCHANGED <<inputVars, outputUsable, objVars, bundle_id_ref, tempExists,
                   zipContents, outVars, requests, remotePush, certFileKey, result,
                   moveDone>>

(* ---------------- create_provisioning_profile ---------------- *)
\* ProfileRequest naming no certificate.
ProfileRequest_without_certificate(ref) == Request("POST /profiles", jwt_token, FALSE, ref, 0)

\* The request create_provisioning_profile(bundle_id_ref) sends: its payload
\* relates the profile to the identity reference passed in and to
\* self.certificate_id.
ProfileRequest(ref) == Request("POST /profiles", jwt_token, FALSE, ref, certificate_id)

\* self.profile_id after the request was answered: assigned from the body of
\* a 201 before the profile content is decoded and written.
ProfileIdAfter(old, resp) == IF resp = "201" THEN NewProfileId ELSE old

\* Writing profile.mobileprovision after profile_id was assigned: open() (or
\* reading the content from the body) may raise and leave no file; decoding
\* or writing inside the with block may raise and leave a file cut short.
ProfileWriteOutcomes == {"ok", "open_exc", "write_exc"}
ProfileWritten(tf, w) == IF w = "open_exc" THEN tf ELSE tf \cup {ProfileFile}

create_provisioning_profile ==
    /\ pc = "profile"
    /\ calls' = Called("create_provisioning_profile")
    /\ requests' = Append(requests, ProfileRequest(bundle_id_ref))
    /\ LET l1 == log(log_messages, "create_provisioning_profile", "creating")
       IN  \E resp \in {"201", "409", "exc", "never"}, w \in ProfileWriteOutcomes :
             /\ resp # "201" => w = "ok"
             /\ profile_id' = ProfileIdAfter(profile_id, resp)
             /\ tempFiles' = IF resp = "201" THEN ProfileWritten(tempFiles, w) ELSE tempFiles
             /\ OnlyResponses(<<resp>>)
             /\ IF resp = "never"
                THEN /\ log_messages' = l1
                     /\ Hang
                ELSE /\ log_messages' = log(l1, "create_provisioning_profile",
                                            IF w = "ok" THEN resp ELSE w)
                     /\ Advance("create_provisioning_profile",
                                resp = "201" /\ w = "ok", "package")
    /\ UNCHANGED <<inputVars, outputUsable, jwt_token, private_key, certificate_id,
                   bundle_id_ref, tempExists, zipContents, outVars, remotePush, certFileKey,
                   p12Vars, result, moveDone>>

(* ---------------- package_files ---------------- *)
\* files_to_zip without the optional P12 file.
files_to_zip_without_p12(tf) == {f \in {KeyFile, CertFile, ProfileFile} : f \in tf}

\* What package_files puts in the archive: the three listed files and the
\* P12 file when it exists, each only if it exists in the scratch area.
files_to_zip(tf) ==
    {f \in {KeyFile, CertFile, ProfileFile} \cup ({P12File} \cap tf) : f \in tf}

package_files ==
    /\ pc = "package"
    /\ calls' = Called("package_files")
    /\ LET l1 == log(log_messages, "package_files", "packaging")
       IN  \E o \in {"ok", "open_exc", "write_exc"} :
             /\ tempFiles' = IF o = "open_exc" THEN tempFiles ELSE tempFiles \cup {ZipFile}
             /\ zipContents' = IF o = "ok" THEN files_to_zip(tempFiles) ELSE {}
             /\ log_messages' = log(l1, "package_files", o)
             /\ Advance("package_files", o = "ok", "relocate")
    /\ NoLocals
    /\ UNCHANGED <<inputVars, outputUsable, objVars, bundle_id_ref, tempExists, outVars,
                   requests, remotePush, certFileKey, p12Vars, result, moveDone>>

(* ---------------- generate_assets: the ways out ---------------- *)
\* The output location as the run finds it: chosen at its first use and
\* the same from then on.
Found(usable) == IF usable THEN "yes" ELSE "no"
CanFind(usable) == outputUsable \in {"unknown", Found(usable)}

\* write_log_file(status) followed by move_outputs_to_final_dir().
LogThenRelocate(usable, lines, status, fault) ==
    LET wl == write_log_file(usable, outExists, outFiles, logFile, lines, status)
    IN  [mv |-> move_outputs_to_final_dir(usable, tempExists, tempFiles,
                                          wl.outExists, wl.outFiles, fault),
         logFile |-> wl.logFile]

\* A step returned failure: write_log_file("FAILURE"),
\* move_outputs_to_final_dir(), return False.
failure_exit ==
    /\ pc = "failure"
    /\ \E usable \in BOOLEAN, fault \in MoveFaults :
         /\ CanFind(usable)
         /\ FaultPossible(tempExists, tempFiles, fault)
         /\ outputUsable' = Found(usable)
         /\ LET r == LogThenRelocate(usable, log_messages, "FAILURE", fault)
            IN  /\ tempExists' = r.mv.tempExists
                /\ tempFiles' = r.mv.tempFiles
                /\ outExists' = r.mv.outExists
                /\ outFiles' = r.mv.outFiles
                /\ logFile' = r.logFile
                /\ moveDone' = IF r.mv.raised THEN moveDone ELSE moveDone + 1
                /\ pc' = IF r.mv.raised THEN "except" ELSE "done"
                /\ result' = IF r.mv.raised THEN result ELSE "false"
    /\ calls' = [calls EXCEPT !["write_log_file"] = @ + 1,
                              !["move_outputs_to_final_dir"] = @ + 1]
    /\ NoLocals
    /\ UNCHANGED <<inputVars, objVars, log_messages, bundle_id_ref, zipContents,
                   requests, remotePush, certFileKey, p12Vars, stepResult>>

\* Every step returned success: move_outputs_to_final_dir(), two log lines,
\* write_log_file("SUCCESS"), return True.
success_exit ==
    /\ pc = "relocate"
    /\ \E usable \in BOOLEAN, fault \in MoveFaults :
         /\ CanFind(usable)
         /\ FaultPossible(tempExists, tempFiles, fault)
         /\ outputUsable' = Found(usable)
         /\ LET mv == move_outputs_to_final_dir(usable, tempExists, tempFiles,
                                                outExists, outFiles, fault)
                l2 == log(log(log_messages, "generate_assets", "completed"),
                          "generate_assets", "files saved")
                wl == write_log_file(usable, mv.outExists, mv.outFiles, logFile,
                                     l2, "SUCCESS")
            IN  /\ tempExists' = mv.tempExists
                /\ tempFiles' = mv.tempFiles
                /\ IF mv.raised
                   THEN /\ outExists' = mv.outExists
                        /\ outFiles' = mv.outFiles
                        /\ calls' = Called("move_outputs_to_final_dir")
                        /\ pc' = "except"
                        /\ UNCHANGED <<logFile, log_messages, result, moveDone>>
                   ELSE /\ outExists' = wl.outExists
                        /\ outFiles' = wl.outFiles
                        /\ logFile' = wl.logFile
                        /\ log_messages' = l2
                        /\ calls' = [calls EXCEPT !["write_log_file"] = @ + 1,
                                                  !["move_outputs_to_final_dir"] = @ + 1]
                        /\ moveDone' = moveDone + 1
                        /\ pc' = "done"
                        /\ result' = "true"
    /\ NoLocals
    /\ UNCHANGED <<inputVars, objVars, bundle_id_ref, zipContents, requests, remotePush,
                   certFileKey, p12Vars, stepResult>>

\* The except clause of generate_assets: a log line, write_log_file("FAILURE"),
\* move_outputs_to_final_dir() once more, return False. An exception raised
\* here leaves generate_assets.
except_handler ==
    /\ pc = "except"
    /\ log_messages' = log(log_messages, "generate_assets", "failed")
    /\ \E usable \in BOOLEAN, fault \in MoveFaults :
         /\ CanFind(usable)
         /\ FaultPossible(tempExists, tempFiles, fault)
         /\ outputUsable' = Found(usable)
         /\ LET r == LogThenRelocate(usable, log_messages', "FAILURE", fault)
            IN  /\ tempExists' = r.mv.tempExists
                /\ tempFiles' = r.mv.tempFiles
                /\ outExists' = r.mv.outExists
                /\ outFiles' = r.mv.outFiles
                /\ logFile' = r.logFile
                /\ moveDone' = IF r.mv.raised THEN moveDone ELSE moveDone + 1
                /\ result' = IF r.mv.raised THEN "raised" ELSE "false"
    /\ pc' = "done"
    /\ calls' = [calls EXCEPT !["write_log_file"] = @ + 1,
                              !["move_outputs_to_final_dir"] = @ + 1]
    /\ NoLocals
    /\ UNCHANGED <<inputVars, objVars, bundle_id_ref, zipContents, requests, remotePush,
                   certFileKey, p12Vars, stepResult>>

(* ---------------- the pipeline ---------------- *)
Next ==
    \/ generate_assets_start
    \/ generate_jwt_token
    \/ verify_bundle_id_exists
    \/ ensure_push_capability
    \/ generate_private_key_and_csr
    \/ create_certificate
    \/ generate_p12_file
    \/ create_provisioning_profile
    \/ package_files
    \/ failure_exit
    \/ success_exit
    \/ except_handler

Spec == Init /\ [][Next]_vars

(* ======================= properties ======================= *)
Sent(op) == \E i \in 1..Len(requests) : requests[i].op = op

\* The steps of generate_assets in the order it calls them, and the step
\* each logging function belongs to.
PipelineOrder == <<"generate_jwt_token", "verify_bundle_id_exists",
                   "ensure_push_capability", "generate_private_key_and_csr",
                   "create_certificate", "generate_p12_file",
                   "create_provisioning_profile", "package_files">>

PhaseOf(fn) ==
    CASE fn = "create_bundle_id" -> 2
      [] fn = "use_existing_certificate" -> 5
      [] fn = "generate_assets" -> 0
      [] OTHER -> CHOOSE i \in 1..Len(PipelineOrder) : PipelineOrder[i] = fn

\* The first seven steps: the remote and cryptographic ones.
SomeStepFailed == \E i \in 1..7 : stepResult[PipelineOrder[i]] = "false"

Done == pc = "done"

\* C1: in every run, move_outputs_to_final_dir is performed exactly once
\* before the run ends, whichever step fails and also when relocation raises.
C1_RelocatedExactlyOnce ==
    Done => calls["move_outputs_to_final_dir"] = 1

\* C10: generate_assets never lets an exception escape: every run ends with
\* a boolean result, and it is False whenever an operation failed.
C10_NoExceptionEscapes ==
    Done => /\ result \in {"true", "false"}
            /\ (SomeStepFailed \/ stepResult["package_files"] = "false"
                \/ moveDone < calls["move_outputs_to_final_dir"]) => result = "false"

\* No step after a failed one is invoked and no later phase writes to the log.
NothingAfterFailure ==
    \A i \in 1..7 :
      stepResult[PipelineOrder[i]] = "false" =>
        /\ \A j \in (i + 1)..Len(PipelineOrder) : calls[PipelineOrder[j]] = 0
        /\ \A k \in 1..Len(log_messages) : PhaseOf(log_messages[k][1]) <= i
        /\ \A k \in 1..Len(requests) :
             requests[k].op \notin
               (CASE i = 1 -> {"GET /bundleIds", "POST /bundleIds"}
                  [] OTHER -> {})
               \cup (IF i <= 2 THEN {"GET /bundleIds/capabilities",
                                     "POST /bundleIdCapabilities"} ELSE {})
               \cup (IF i <= 4 THEN {"POST /certificates"} ELSE {})
               \cup (IF i <= 6 THEN {"POST /profiles"} ELSE {})

\* C2: fail-fast: as soon as one of the seven steps returns failure, no later
\* step is invoked, no later phase logs anything, and the run ends with
\* generate_assets returning False.
C2_FailFast ==
    /\ NothingAfterFailure
    /\ (Done /\ SomeStepFailed) => result = "false"

\* C3 as stated: also in a run where an earlier step failed, package_files is
\* executed before relocation and the output contains an archive.
C3_ArchiveOnFailure ==
    (Done /\ SomeStepFailed) => calls["package_files"] = 1

\* C3 as amended: package_files runs only after all seven steps returned
\* success; in a run where a step failed it is never executed and no archive
\* exists in the scratch area or in the output, while relocation is still
\* invoked before the run ends.
C3_ArchiveOnlyAfterAllSteps ==
    /\ calls["package_files"] > 0 =>
         \A i \in 1..7 : stepResult[PipelineOrder[i]] = "true"
    /\ SomeStepFailed =>
         /\ calls["package_files"] = 0
         /\ ZipFile \notin tempFiles \cup outFiles
         /\ Done => calls["move_outputs_to_final_dir"] >= 1

C3_Witness ==
    /\ Done /\ SomeStepFailed
    /\ stepResult["create_provisioning_profile"] = "false"
    /\ {KeyFile, CertFile} \subseteq outFiles
    /\ ZipFile \notin outFiles

\* The credentials C4 is about, read off the inputs.
InvalidCredentialInput ==
    \/ key_identifier_len # 10
    \/ issuer_id_len \notin {32, 36}
    \/ p8_file \in {"missing", "bad_header", "bad_footer"}

\* C4: with a key identifier whose length is not 10, an issuer identifier
\* whose length is neither 32 nor 36, a missing key file or one without the
\* PEM header/footer, generate_jwt_token returns failure, no token is
\* created and no network request is issued at any point of the run.
C4_InvalidCredentialNoNetwork ==
    InvalidCredentialInput =>
        /\ jwt_token = "none"
        /\ requests = <<>>
        /\ stepResult["generate_jwt_token"] \in {"none", "false"}
        /\ calls["generate_jwt_token"] > 0 => stepResult["generate_jwt_token"] = "false"

C4_Witness ==
    /\ Done
    /\ key_identifier_len = 10 /\ issuer_id_len = 10 /\ p8_file = "ok"
    /\ stepResult["generate_jwt_token"] = "false"
    /\ requests = <<>>

C6_MissingToolTolerated ==
    /\ p12Probe \in {"notfound", "timeout", "nonzero"} =>
         /\ stepResult["generate_p12_file"] = "true"
         /\ p12Export = "none"
         /\ P12File \notin tempFiles \cup outFiles \cup zipContents
         /\ (/\ Done
             /\ stepResult["create_provisioning_profile"] = "true"
             /\ stepResult["package_files"] = "true"
             /\ moveDone = calls["move_outputs_to_final_dir"]) => result = "true"
    /\ (~Done /\ pc # "hung") => ENABLED Next

C6_Witness ==
    /\ Done /\ result = "true"
    /\ p12Probe = "timeout"
    /\ P12File \notin outFiles
    /\ zipContents = {KeyFile, CertFile, ProfileFile}
    /\ ZipFile \in outFiles

\* C7: when the probe succeeds but the export exits non-zero,
\* generate_p12_file returns failure, the profile request is never sent and
\* the run ends with generate_assets returning False.
C7_FailingToolFatal ==
    (p12Probe = "ok" /\ p12Export = "nonzero") =>
        /\ stepResult["generate_p12_file"] = "false"
        /\ ~Sent("POST /profiles")
        /\ Done => result = "false"

\* C8: after a 409 and a listing with at least one IOS_DISTRIBUTION
\* certificate, certificate_id is the id of a listed certificate of that
\* type whose expiration date is not less than that of any other listed
\* certificate of that type.
C8_LatestOfRequiredType ==
    (\E j \in 1..Len(certListing) : certListing[j].type = "IOS_DISTRIBUTION") =>
        \E i \in 1..Len(certListing) :
            /\ certListing[i].type = "IOS_DISTRIBUTION"
            /\ certificate_id = certListing[i].id
            /\ \A j \in 1..Len(certListing) :
                 certListing[j].type = "IOS_DISTRIBUTION" =>
                    ~StrLess(certListing[i].exp, certListing[j].exp)

C8_Witness ==
    /\ Len(certListing) = 3
    /\ certListing[1].type = "IOS_DEVELOPMENT" /\ certListing[1].exp = <<2, 1>>
    /\ certListing[2].type = "IOS_DISTRIBUTION" /\ certListing[2].exp = <<1, 9>>
    /\ certListing[3].type = "IOS_DISTRIBUTION" /\ certListing[3].exp = <<2, 0>>
    /\ certificate_id = 3
    /\ stepResult["create_certificate"] = "true"

\* C9 as stated: on an identity that already has push enabled the call sends
\* no capability-creation request and returns success, whatever the fetch
\* answers.
C9_NoCreationWhenEnabled ==
    pushAtCall = "enabled" =>
        /\ ~Sent("POST /bundleIdCapabilities")
        /\ stepResult["ensure_push_capability"] = "true"

\* C9 as amended: on an identity that already has push enabled, when the
\* fetch answers 200 the call sends no capability-creation request and
\* returns success; when the fetch answers another status the creation
\* request is sent, and when the fetch raises the call returns failure
\* without sending it.
C9_NoCreationWhenFetchShowsEnabled ==
    pushAtCall = "enabled" =>
        /\ capFetch = "200" =>
             /\ ~Sent("POST /bundleIdCapabilities")
             /\ stepResult["ensure_push_capability"] = "true"
        /\ capFetch = "500" => Sent("POST /bundleIdCapabilities")
        /\ capFetch = "exc" =>
             /\ ~Sent("POST /bundleIdCapabilities")
             /\ stepResult["ensure_push_capability"] = "false"

C9_Witness ==
    /\ pushAtCall = "enabled" /\ capFetch = "200"
    /\ stepResult["ensure_push_capability"] = "true"
    /\ Sent("GET /bundleIds/capabilities")
    /\ ~Sent("POST /bundleIdCapabilities")

(* ---------------- C11 ---------------- *)
\* main: sys.exit(0 if success else 1); an exception that leaves
\* generate_assets ends the interpreter with status 1.
exit_code == IF result = "true" THEN 0 ELSE 1

C12_EveryRunReachesDone == ~Done => ENABLED Next

(* ---------------- C13 ---------------- *)
\* The state right after generate_jwt_token sent its probe.
AfterProbe ==
    /\ calls["generate_jwt_token"] = 1
    /\ calls["verify_bundle_id_exists"] = 0
    /\ pc \in {"resolve", "failure"}
    /\ Len(responses) = 1

\* C13: with well-formed credentials the probe decides the outcome of
\* authentication: 200 is success, 401 is failure, any other status is
\* success, a network exception is failure; the probe is sent with the
\* token just created and the pipeline goes on exactly on success.
C13_ProbeOutcome ==
    AfterProbe =>
      /\ ~InvalidCredentialInput
      /\ Len(requests) = 1
      /\ requests[1].op = "GET /certificates" /\ requests[1].token = jwt_token
      /\ jwt_token # "none"
      /\ responses[1] = "200" => stepResult["generate_jwt_token"] = "true"
      /\ responses[1] = "401" => stepResult["generate_jwt_token"] = "false"
      /\ responses[1] \notin {"200", "401", "exc"} => stepResult["generate_jwt_token"] = "true"
      /\ responses[1] = "exc" => stepResult["generate_jwt_token"] = "false"
      /\ (pc = "resolve") = (stepResult["generate_jwt_token"] = "true")

\* The probe answered a status that is neither 200 nor 401 and
\* authentication succeeded.
C13_Witness ==
    /\ AfterProbe
    /\ responses[1] = "500"
    /\ stepResult["generate_jwt_token"] = "true"
    /\ pc = "resolve"

(* ---------------- C14 ---------------- *)
\* The state right after verify_bundle_id_exists ran (or blocked).
AfterResolve ==
    /\ calls["verify_bundle_id_exists"] = 1
    /\ calls["ensure_push_capability"] = 0
    /\ pc \in {"cap", "failure", "hung"}

\* C14: the identity-creation request is sent exactly when the listing
\* answered 200 and no listed identity has exactly the requested
\* identifier; with a match the step returns that identity's reference and
\* creates nothing; when the listing fails the step returns failure and
\* creates nothing; after a creation request the step returns the new
\* reference on 201 and failure on any other status, and a failure of the
\* step ends the pipeline in failure.
C14_CreatesOnlyWhenAbsent ==
    /\ AfterResolve =>
         LET listed == responses[1] = "200"
             hits == {i \in 1..Len(bundleListing) : bundleListing[i].identifier = BundleId}
             created == Sent("POST /bundleIds")
         IN  /\ created = (listed /\ hits = {})
             /\ created = (calls["create_bundle_id"] = 1)
             /\ (listed /\ hits # {}) =>
                  /\ \E i \in hits : bundle_id_ref = bundleListing[i].id
                  /\ stepResult["verify_bundle_id_exists"] = "true" /\ pc = "cap"
             /\ ~listed =>
                  /\ responses[1] \in {"401", "403", "500", "timeout", "connerr"}
                  /\ bundle_id_ref = 0
                  /\ stepResult["verify_bundle_id_exists"] = "false" /\ pc = "failure"
             /\ (created /\ responses[2] = "201") =>
                  /\ bundle_id_ref = NewBundleRef
                  /\ stepResult["verify_bundle_id_exists"] = "true" /\ pc = "cap"
             /\ (created /\ responses[2] \notin {"201", "never"}) =>
                  /\ bundle_id_ref = 0
                  /\ stepResult["verify_bundle_id_exists"] = "false" /\ pc = "failure"
    /\ stepResult["verify_bundle_id_exists"] = "false" =>
         /\ result # "true"
         /\ calls["ensure_push_capability"] = 0
         /\ pc \in {"failure", "except", "done"}

\* The listing answered 200 with identities of other identifiers only, the
\* creation request was sent and answered 201.
C14_Witness ==
    /\ AfterResolve
    /\ responses = <<"200", "201">>
    /\ Len(bundleListing) = MaxBundles
    /\ Sent("POST /bundleIds")
    /\ bundle_id_ref = NewBundleRef

(* ---------------- C15 ---------------- *)
\* The state right after create_certificate returned.
AfterCertificate ==
    /\ calls["create_certificate"] = 1
    /\ calls["generate_p12_file"] = 0
    /\ pc \in {"p12", "failure"}

\* C15: create_certificate returns success only when the creation request
\* answered 201, or answered 409 and the listing answered 200 with at least
\* one certificate of the required type; when it returns success
\* certificate_id is set and the certificate file is in the scratch area
\* (in those two cases it fails only if writing the file raises). With 409 and no such
\* certificate, a failed listing, or any other creation status it returns
\* failure and certificate_id and the certificate file stay as they were
\* (unset and absent).
C15_CertificateOutcome ==
    AfterCertificate =>
      LET ok == stepResult["create_certificate"] = "true"
          fresh == responses = <<"201">>
          reused == /\ responses = <<"409", "200">>
                    /\ \E i \in 1..Len(certListing) : certListing[i].type = RequiredType
          enumerated == \/ responses[1] \notin {"201", "409"}
                        \/ Len(responses) = 2 /\ responses[2] # "200"
                        \/ responses = <<"409", "200">> /\ ~reused
      IN  /\ ok => (fresh \/ reused)
          /\ enumerated => ~ok
          /\ ok = (pc = "p12")
          /\ ok => /\ certificate_id # 0
                   /\ CertFile \in tempFiles
                   /\ fresh => certificate_id = NewCertId
                   /\ reused => \E i \in 1..Len(certListing) :
                                  /\ certListing[i].type = RequiredType
                                  /\ certificate_id = certListing[i].id
          /\ enumerated => /\ stepResult["create_certificate"] = "false"
                           /\ certificate_id = 0
                           /\ CertFile \notin tempFiles
                           /\ certFileKey = "none"
          /\ Sent("POST /certificates") /\ (Len(responses) = 2) = (responses[1] = "409")

\* The creation request answered 409 and the listing answered 200 with
\* certificates of another type only: failure, nothing assigned or written.
C15_Witness ==
    /\ AfterCertificate
    /\ responses = <<"409", "200">>
    /\ Len(certListing) > 0
    /\ stepResult["create_certificate"] = "false"
    /\ certificate_id = 0
    /\ CertFile \notin tempFiles

(* ---------------- C16 ---------------- *)
\* The state right after ensure_push_capability ran (or blocked).
AfterCapability ==
    /\ calls["ensure_push_capability"] = 1
    /\ calls["generate_private_key_and_csr"] = 0
    /\ pc \in {"keys", "failure", "hung"}

\* The fetch answered 200 and its list shows push enabled.
FetchShowsEnabled == capFetch = "200" /\ pushAtCall = "enabled"

\* The creation request was sent and answered 200 or 201.
CreationAccepted ==
    /\ Sent("POST /bundleIdCapabilities")
    /\ Len(responses) = 2 /\ responses[2] \in {"200", "201"}

\* C16 as stated: the step returns success exactly when the fetched list
\* shows push enabled or the creation request answered 200 or 201; the
\* creation request is sent only after a fetch that answered 200 with a
\* list not showing push enabled, never after a fetch that failed.
C16_CreationOnlyAfterFetchShowsDisabled ==
    AfterCapability =>
      /\ (stepResult["ensure_push_capability"] = "true") =
            (FetchShowsEnabled \/ CreationAccepted)
      /\ Sent("POST /bundleIdCapabilities") =>
            (capFetch = "200" /\ pushAtCall = "disabled")

\* C16 as amended: the step returns success exactly when the fetched list
\* shows push enabled or the creation request answered 200 or 201; the
\* creation request is sent after every answered fetch that does not show
\* push enabled, a fetch answering a status other than 200 included, and is
\* not sent when the fetch shows push enabled or raises.
C16_CreationUnlessFetchShowsEnabled ==
    AfterCapability =>
      /\ (stepResult["ensure_push_capability"] = "true") =
            (FetchShowsEnabled \/ CreationAccepted)
      /\ (pc = "keys") = (stepResult["ensure_push_capability"] = "true")
      /\ Sent("POST /bundleIdCapabilities") =
            (capFetch \in {"200", "500"} /\ ~FetchShowsEnabled)
      /\ Sent("POST /bundleIdCapabilities") =>
            /\ requests[Len(requests)].op = "POST /bundleIdCapabilities"
            /\ requests[Len(requests) - 1].op = "GET /bundleIds/capabilities"

\* The fetch answered a status other than 200, the creation request was
\* sent all the same and answered 201: success.
C16_Witness ==
    /\ AfterCapability
    /\ capFetch = "500"
    /\ responses = <<"500", "201">>
    /\ Sent("POST /bundleIdCapabilities")
    /\ stepResult["ensure_push_capability"] = "true"

(* ---------------- C17 ---------------- *)
\* How many requests of one kind the run has sent.
SentCount(op) == Cardinality({i \in 1..Len(requests) : requests[i].op = op})

CreationRequests == {"POST /bundleIds", "POST /bundleIdCapabilities",
                     "POST /certificates", "POST /profiles"}

\* C17: no step is retried or re-entered: each of the eight steps is
\* invoked at most once in a run, in the order of the pipeline, and each
\* remote creation request (identity, capability, certificate, profile) is
\* sent at most once.
C17_NoRetry ==
    /\ \A i \in 1..Len(PipelineOrder) : calls[PipelineOrder[i]] <= 1
    /\ \A i \in 2..Len(PipelineOrder) :
          calls[PipelineOrder[i]] = 1 => stepResult[PipelineOrder[i - 1]] = "true"
    /\ calls["create_bundle_id"] <= 1 /\ calls["use_existing_certificate"] <= 1
    /\ \A op \in CreationRequests : SentCount(op) <= 1

\* A run that ended in failure at the profile step after all four creation
\* requests were sent, each once.
C17_Witness ==
    /\ Done /\ result = "false"
    /\ stepResult["create_provisioning_profile"] = "false"
    /\ \A op \in CreationRequests : SentCount(op) = 1

(* ---------------- C18 ---------------- *)
\* The profile-creation request, once sent, is the last request of the
\* run, every earlier step has returned success, and it names the identity
\* reference and the certificate id the object holds, both set.
ProfileRequestWellFounded ==
    \A i \in 1..Len(requests) :
      requests[i].op = "POST /profiles" =>
        /\ i = Len(requests)
        /\ \A k \in 1..6 : stepResult[PipelineOrder[k]] = "true"
        /\ \A j \in 1..(i - 1) : requests[j].op # "POST /profiles"
        /\ requests[i].ref = bundle_id_ref /\ bundle_id_ref # 0
        /\ requests[i].cert = certificate_id /\ certificate_id # 0
        /\ \A j \in 1..(i - 1) :
              requests[j].op \in {"GET /bundleIds/capabilities", "POST /bundleIdCapabilities"}
                => requests[j].ref = requests[i].ref

\* The identity reference is assigned by verify_bundle_id_exists only and
\* certificate_id by create_certificate only.
AssignedByTheirStep ==
    /\ bundle_id_ref' # bundle_id_ref => pc = "resolve"
    /\ certificate_id' # certificate_id => pc = "cert"

\* C18: the profile-creation request is the last remote creation of a run
\* and is sent only after identity resolution, capability, key generation,
\* certificate issuance and bundling have all returned success; when it is
\* sent the identity reference is the one verify_bundle_id_exists returned
\* in this run and certificate_id is set and is the id create_certificate
\* assigned in this run.
C18_ProfileAfterAll == []ProfileRequestWellFounded /\ [][AssignedByTheirStep]_vars

\* The profile request was sent naming a certificate taken from the
\* listing after a 409 and an identity found in the listing.
C18_Witness ==
    /\ Sent("POST /profiles")
    /\ requests[Len(requests)].cert = certificate_id
    /\ certificate_id \in 1..MaxCerts
    /\ requests[Len(requests)].ref = bundle_id_ref
    /\ bundle_id_ref \in 1..MaxBundles
    /\ calls["use_existing_certificate"] = 1

(* ---------------- C19 ---------------- *)
\* Every request sent so far carries the token the object holds, and that
\* token is set.
RequestsCarryToken ==
    \A i \in 1..Len(requests) :
      requests[i].token = jwt_token /\ requests[i].token # "none"

\* jwt_token is assigned by generate_jwt_token only, once, from unset.
TokenAssignedOnce ==
    jwt_token' # jwt_token =>
      /\ pc = "auth" /\ jwt_token = "none"
      /\ calls'["generate_jwt_token"] = 1

\* C19: the access token is created at most once per run, by
\* generate_jwt_token only; no later step assigns or refreshes it, and
\* every request of the run carries that same non-null token.
C19_TokenCreatedOnce == []RequestsCarryToken /\ [][TokenAssignedOnce]_vars

\* The profile request, the last of at least five requests, was sent with
\* the token created by authentication.
C19_Witness ==
    /\ Len(requests) >= 5
    /\ requests[Len(requests)].op = "POST /profiles"
    /\ requests[Len(requests)].token = jwt_token
    /\ requests[1].token = jwt_token
    /\ jwt_token # "none"

(* ---------------- C20 ---------------- *)
\* The artifact files of a run: key, certificate, combined bundle, profile.
ArtifactFiles == {KeyFile, CertFile, P12File, ProfileFile}

\* C20: after every run that ends in failure, no artifact file is left in
\* the scratch area (each one that existed there is in the output
\* directory), a log with final status FAILURE is in the output directory,
\* and the scratch directory has been discarded.
C20_FailureLeavesArtifactsInOutput ==
    (Done /\ result # "true") =>
      /\ ArtifactFiles \cap tempFiles = {}
      /\ LogFile \in outFiles /\ logFile.status = "FAILURE"
      /\ ~tempExists

(* ---------------- C21 ---------------- *)
RequiredFiles == {KeyFile, CertFile, ProfileFile}

\* C21: whenever package_files is about to run, the private key, the
\* certificate and the profile all exist in the scratch area, so no
\* required file is skipped; the archive it produces contains these three,
\* the combined bundle exactly when the bundle file exists, and nothing
\* else; no archive content exists unless package_files returned success.
C21_ArchiveContents ==
    /\ pc = "package" =>
         /\ RequiredFiles \subseteq tempFiles
         /\ calls["package_files"] = 0
    /\ stepResult["package_files"] = "true" =>
         /\ RequiredFiles \subseteq zipContents
         /\ (P12File \in zipContents) = (P12File \in tempFiles \cup outFiles)
         /\ zipContents \subseteq RequiredFiles \cup {P12File}
         /\ ZipFile \in tempFiles \cup outFiles
    /\ zipContents # {} => stepResult["package_files"] = "true"

\* package_files returned success in a run whose export produced the
\* combined bundle: four files in the archive.
C21_Witness ==
    /\ stepResult["package_files"] = "true"
    /\ pc = "relocate"
    /\ P12File \in tempFiles
    /\ zipContents = RequiredFiles \cup {P12File}

(* ---------------- C22 ---------------- *)
\* The state right after create_provisioning_profile returned.
AfterProfile ==
    /\ calls["create_provisioning_profile"] = 1
    /\ calls["package_files"] = 0
    /\ pc \in {"package", "failure"}

\* C22: create_provisioning_profile returns success exactly when the
\* profile-creation request answered 201, and then profile_id is set and
\* the profile file is in the scratch area; for any other status or any
\* exception it returns failure, profile_id stays unset and no profile
\* file is written.
C22_ProfileOutcome ==
    AfterProfile =>
      LET ok == stepResult["create_provisioning_profile"] = "true"
      IN  /\ ok = (responses = <<"201">>)
          /\ ok => (profile_id # 0 /\ ProfileFile \in tempFiles)
          /\ ~ok => (profile_id = 0 /\ ProfileFile \notin tempFiles)

(* ---------------- C23 ---------------- *)
\* C23: whenever both a private key file and a complete certificate file
\* are among the artifacts (scratch area or output directory), the
\* certificate is the one issued from the signing request made from this
\* run's private key; a key is never paired with a certificate issued for
\* another key.
C23_KeyAndCertificatePair ==
    (/\ KeyFile \in tempFiles \cup outFiles
     /\ CertFile \in tempFiles \cup outFiles
     /\ certFileKey # "partial") => certFileKey = private_key

====
